---- MODULE Spec2Model ----
(***************************************************************************)
(* The investment engine of arki-mvp (src/investment_manager.py): target   *)
(* allocation, order calculation, the pending-order retry pass with its    *)
(* cash reservation, and the market-price cache.                           *)
(*                                                                         *)
(* Numbers.  Python floats are modelled as exact rationals.  Prices are    *)
(* whole numbers of a price unit; every cash amount is held in hundredths  *)
(* of that unit ("cents"), so that quantity * price * 1.05 is the integer  *)
(* quantity * price * 105.  A target value is a rational [num, den] of     *)
(* cents: total_value * (1 / #strategies) * (percent / 100).               *)
(* The contract key symbol_secType_exchange is modelled by the symbol:     *)
(* every instrument of the model is a stock on one exchange.               *)
(***************************************************************************)
EXTENDS Integers, Sequences, FiniteSets, TLC

VARIABLES
    pending_orders,        \* InvestmentManager.pending_orders
    reserved_cash,         \* InvestmentManager.reserved_cash (cents)
    market_data_cache,     \* investment_config['market_data_cache']
    investment_account,    \* InvestmentManager.investment_account
    investment_portfolio,  \* InvestmentManager.investment_portfolio
    now,                   \* time.time(), seconds
    pending_age,           \* history: invocations each pending order has entered
    last,                  \* observation of the most recent call and its result
    in_flight,             \* locals of each thread's running invocation of the engine
    is_running,            \* PortfolioScheduler.is_running
    last_execution,        \* PortfolioScheduler.last_execution (the keys it holds)
    task_pc,               \* position of each thread inside a scheduler task
    cash_queue,            \* InvestmentDemo.cash_queue
    deposit_pc,            \* position of the demo's scheduler thread
    total_deposit,         \* total_deposit of the tick in progress (cents)
    deposits,              \* history: every amount the CLI thread has enqueued
    ticks,                 \* history: every tick of the demo's scheduler thread
    supplied,              \* history: excess_cash handed to the engine so far (cents)
    spent                  \* history: cost of the orders reported 'Submitted' (cents)

engineVars == <<pending_orders, reserved_cash, market_data_cache, investment_account,
                investment_portfolio, now, pending_age, last>>

schedulerVars == <<is_running, last_execution, task_pc>>

demoVars == <<cash_queue, deposit_pc, total_deposit, deposits, ticks>>

historyVars == <<supplied, spent>>

\* the state outside the investment engine, and the history of its use
otherVars == <<in_flight, schedulerVars, demoVars, historyVars>>

vars == <<engineVars, otherVars>>

(***************************************************************************)
(* Program constants                                                       *)
(***************************************************************************)
order_buffer_pct == 105
rebalance_threshold_pct == 5
max_retry_attempts == 3
market_data_timeout == 300

(***************************************************************************)
(* Bounds of the model                                                     *)
(***************************************************************************)
MaxClock == 300        \* the clock stops advancing here
TickSeconds == 300     \* one step of the clock
MaxAge == 4            \* cap of the pending_age history counter
MaxCashUnits == 10     \* largest excess cash handed to one invocation, in price units
MaxPending == 2        \* longest pending list installed by a caller

Symbols == {"AAPL", "MSFT"}
LivePrices == {2, 3}
SimPrices == {4}

NoEntry == [price |-> 0, timestamp |-> 0, simulated |-> FALSE, present |-> FALSE]
NoAccount == [loaded |-> FALSE, value_key |-> FALSE, total_value |-> 0, positions |-> <<>>]
NoPortfolio == <<>>

Min(a, b) == IF a < b THEN a ELSE b
Max(a, b) == IF a > b THEN a ELSE b
Abs(a) == IF a < 0 THEN -a ELSE a

\* Python int(a / b) for b > 0: truncation toward zero
TruncDiv(a, b) == IF a >= 0 THEN a \div b ELSE -((-a) \div b)

(***************************************************************************)
(* The live market-data feed: what ibkr.request_market_data does for one   *)
(* contract during one call.                                               *)
(***************************************************************************)
FeedOutcomes ==
    {[kind |-> "price", price |-> p] : p \in LivePrices \cup {0}}
        \cup {[kind |-> "none", price |-> 0], [kind |-> "error", price |-> 0]}

\* a validity test that lets a price of 0 through
FeedValid_accepts_zero(f) == f.kind = "price" /\ f.price >= 0

\* line 469: price is not None and price > 0
FeedValid(f) == f.kind = "price" /\ f.price > 0

\* a freshness test under which an entry is stale as soon as it is stored
CacheFresh_expired_at_once(cache, sym, t) ==
    /\ cache[sym].present
    /\ t - cache[sym].timestamp < 0

\* a freshness test that still trusts an entry aged exactly market_data_timeout
CacheFresh_inclusive(cache, sym, t) ==
    /\ cache[sym].present
    /\ t - cache[sym].timestamp <= market_data_timeout

\* lines 440-445: the key is cached and younger than market_data_timeout
CacheFresh(cache, sym, t) ==
    /\ cache[sym].present
    /\ t - cache[sym].timestamp < market_data_timeout

\* a fallback that trusts the cached price only while it is fresh
PriceFallback_simulate_when_expired(cache, sym, t, sim) ==
    IF cache[sym].present /\ t - cache[sym].timestamp < market_data_timeout
    THEN [price |-> cache[sym].price, cache |-> cache, source |-> "stale", called |-> TRUE]
    ELSE [price |-> sim,
          cache |-> [cache EXCEPT ![sym] = [price |-> sim, timestamp |-> t,
                                            simulated |-> TRUE, present |-> TRUE]],
          source |-> "simulated", called |-> TRUE]

\* the except branch of _get_market_price: the cached price, however old, else a
\* simulated one, which is cached
PriceFallback(cache, sym, t, sim) ==
    IF cache[sym].present
    THEN [price |-> cache[sym].price, cache |-> cache, source |-> "stale", called |-> TRUE]
    ELSE [price |-> sim,
          cache |-> [cache EXCEPT ![sym] = [price |-> sim, timestamp |-> t,
                                            simulated |-> TRUE, present |-> TRUE]],
          source |-> "simulated", called |-> TRUE]

\* _get_market_price(contract, force_refresh): feed is the live feed's answer if it
\* is asked, sim the simulated price if one is generated
GetMarketPrice(cache, sym, t, feed, sim, force) ==
    IF ~force /\ CacheFresh(cache, sym, t)
    THEN [price |-> cache[sym].price, cache |-> cache, source |-> "cache", called |-> FALSE]
    ELSE IF FeedValid(feed)
    THEN [price |-> feed.price,
          cache |-> [cache EXCEPT ![sym] = [price |-> feed.price, timestamp |-> t,
                                            simulated |-> FALSE, present |-> TRUE]],
          source |-> "live", called |-> TRUE]
    ELSE PriceFallback(cache, sym, t, sim)

(***************************************************************************)
(* Target allocation                                                       *)
(***************************************************************************)
\* A portfolio is a sequence (dict order) of strategies, each a sequence of
\* instruments with target_percentage in percent.
Instr(sym, pct) == [instrument |-> sym, target_percentage |-> pct]
Strategy(name, instruments) == [strategy |-> name, instruments |-> instruments]

Portfolios ==
    { <<Strategy("Growth", <<Instr("AAPL", 50), Instr("MSFT", 50)>>)>>,
      <<Strategy("Growth", <<Instr("AAPL", 100)>>),
        Strategy("Income", <<Instr("MSFT", 100)>>)>>,
      <<Strategy("Growth", <<Instr("MSFT", 50)>>)>>,
      <<>> }

\* a weight of 1 for every strategy
StrategyWeightDen_unweighted(portfolio) == 1

\* strategy_weight = 1.0 / len(self.investment_portfolio), as the rational 1 / den
StrategyWeightDen(portfolio) == Len(portfolio)

\* _calculate_target_allocation(total_value)
CalculateTargetAllocation(portfolio, total_value) ==
    IF Len(portfolio) = 0 THEN <<>>
    ELSE [s \in 1..Len(portfolio) |->
            [strategy |-> portfolio[s].strategy,
             target_value |-> [num |-> total_value, den |-> StrategyWeightDen(portfolio)],
             instruments |->
                [i \in 1..Len(portfolio[s].instruments) |->
                    [instrument |-> portfolio[s].instruments[i].instrument,
                     target_value |->
                        [num |-> total_value * portfolio[s].instruments[i].target_percentage,
                         den |-> StrategyWeightDen(portfolio) * 100]]]]]

(***************************************************************************)
(* Orders and reservations                                                 *)
(***************************************************************************)
\* an order whose side follows the sign of target_value - current_value
Order_sell_when_over_target(sym, action, qty, price, target, current) ==
    [symbol |-> sym,
     action |-> IF current * target.den > target.num THEN "SELL" ELSE "BUY",
     quantity |-> qty, price |-> price,
     target_value |-> target, current_value |-> current, retry_count |-> 0]

\* An order as _calculate_orders builds it; retry_count is 0 until the order is
\* demoted to the pending list (order_item.get('retry_count', 0)).
Order(sym, action, qty, price, target, current) ==
    [symbol |-> sym, action |-> action, quantity |-> qty, price |-> price,
     target_value |-> target, current_value |-> current, retry_count |-> 0]

\* quantity * price in cents
OrderCost(o) == o.quantity * o.price * 100

RECURSIVE SumCost(_)
SumCost(orders) ==
    IF Len(orders) = 0 THEN 0 ELSE OrderCost(Head(orders)) + SumCost(Tail(orders))

\* the reservation of one pending order: quantity * price * order_buffer for a BUY
ReservedAmount(o) == o.quantity * o.price * order_buffer_pct

\* _calculate_reserved_cash(pending_orders)
RECURSIVE CalculateReservedCash(_)
CalculateReservedCash(orders) ==
    IF Len(orders) = 0 THEN 0
    ELSE (IF Head(orders).action = "BUY" THEN ReservedAmount(Head(orders)) ELSE 0)
            + CalculateReservedCash(Tail(orders))

(***************************************************************************)
(* Order calculation                                                       *)
(***************************************************************************)
\* dict assignment flattened_allocation[instrument] = ...: a key keeps the place
\* of its first insertion and takes the value of its last
DictPut(seq, e) ==
    IF \E i \in 1..Len(seq) : seq[i].instrument = e.instrument
    THEN [i \in 1..Len(seq) |-> IF seq[i].instrument = e.instrument THEN e ELSE seq[i]]
    ELSE Append(seq, e)

RECURSIVE PutAll(_, _)
PutAll(seq, entries) ==
    IF Len(entries) = 0 THEN seq ELSE PutAll(DictPut(seq, Head(entries)), Tail(entries))

RECURSIVE FlattenFrom(_, _, _)
FlattenFrom(plan, s, acc) ==
    IF s > Len(plan) THEN acc
    ELSE FlattenFrom(plan, s + 1, PutAll(acc, plan[s].instruments))

\* the flattened allocation of _calculate_orders
Flatten(plan) == FlattenFrom(plan, 1, <<>>)

\* total_target = sum of target_value over the flattened allocation; the targets
\* of one plan share their denominator
RECURSIVE SumTargetNum(_)
SumTargetNum(flat) ==
    IF Len(flat) = 0 THEN 0 ELSE Head(flat).target_value.num + SumTargetNum(Tail(flat))

\* effective_positions: the shallow copy of current_positions with the pending
\* orders merged in.  An entry that exists has only its position raised; its
\* marketValue stays as it was.
MergePending(eff, o) ==
    IF o.symbol \in DOMAIN eff
    THEN [eff EXCEPT ![o.symbol].position = @ + o.quantity]
    ELSE eff @@ (o.symbol :> [position |-> o.quantity, marketPrice |-> o.price,
                              marketValue |-> o.quantity * o.price * 100])

RECURSIVE EffectivePositions(_, _)
EffectivePositions(current_positions, pending) ==
    IF Len(pending) = 0 THEN current_positions
    ELSE EffectivePositions(MergePending(current_positions, Head(pending)), Tail(pending))

\* current_value of an instrument (lines 608-611)
CurrentValue(eff, sym) == IF sym \in DOMAIN eff THEN eff[sym].marketValue ELSE 0

\* a threshold of 0.05 units of value, whatever the target
BelowThreshold_absolute(target, current_value) ==
    Abs(target.num - current_value * target.den) * 100 < target.den * rebalance_threshold_pct

\* abs(value_diff) < target_value * rebalance_threshold, for the rational target
BelowThreshold(target, current_value) ==
    Abs(target.num - current_value * target.den) * 100 < target.num * rebalance_threshold_pct

\* a sizing that buys at least one share, as the retry adjustment does
SizeOrder_at_least_one(alloc_num, alloc_den, price_cents, remaining_cash) ==
    LET qty == Max(1, TruncDiv(alloc_num, alloc_den * price_cents))
    IN  IF qty * price_cents > remaining_cash
        THEN Max(0, TruncDiv(remaining_cash, price_cents))
        ELSE qty

\* a sizing that rounds the quantity up where the code truncates
SizeOrder_round_up(alloc_num, alloc_den, price_cents, remaining_cash) ==
    LET qty == TruncDiv(alloc_num, alloc_den * price_cents) + 1
    IN  IF qty <= 0 THEN 0
        ELSE IF qty * price_cents > remaining_cash
        THEN Max(0, TruncDiv(remaining_cash, price_cents) + 1)
        ELSE qty

\* lines 648-661: the quantity of allocated_cash = alloc_num / alloc_den at
\* price_cents, shrunk to the remaining cash; 0 when the instrument is skipped
SizeOrder(alloc_num, alloc_den, price_cents, remaining_cash) ==
    LET qty == TruncDiv(alloc_num, alloc_den * price_cents)
    IN  IF qty <= 0 THEN 0
        ELSE IF qty * price_cents > remaining_cash
        THEN Max(0, TruncDiv(remaining_cash, price_cents))
        ELSE qty

\* one pass of the loop of lines 604-683 over flat[k..]; acc carries orders,
\* remaining_cash (and the lowest value it took), the price cache and whether
\* ZeroDivisionError was raised at line 628
RECURSIVE CalcLoop(_, _, _, _, _, _, _, _, _)
CalcLoop(flat, k, eff, total_num, available_cash, t, feed, sim, acc) ==
    IF k > Len(flat) \/ acc.raised THEN acc
    ELSE
      LET target == flat[k].target_value
          sym == flat[k].instrument
          current_value == CurrentValue(eff, sym)
      IN  IF BelowThreshold(target, current_value)
          THEN CalcLoop(flat, k + 1, eff, total_num, available_cash, t, feed, sim, acc)
          ELSE IF total_num = 0
          THEN [acc EXCEPT !.raised = TRUE]
          ELSE
            LET got == GetMarketPrice(acc.cache, sym, t, feed[sym], sim[sym], FALSE)
                price_cents == got.price * 100
                qty == SizeOrder(available_cash * target.num, total_num, price_cents,
                                 acc.remaining_cash)
                next ==
                    IF got.price > 0 /\ qty > 0
                    THEN [acc EXCEPT
                            !.cache = got.cache,
                            !.remaining_cash = @ - qty * price_cents,
                            !.low_water = Min(@, acc.remaining_cash - qty * price_cents),
                            !.orders = Append(@, Order(sym, IF qty > 0 THEN "BUY" ELSE "SELL",
                                                       Abs(qty), got.price,
                                                       target, current_value))]
                    ELSE [acc EXCEPT !.cache = got.cache]
            IN  CalcLoop(flat, k + 1, eff, total_num, available_cash, t, feed, sim, next)

\* _calculate_orders(allocation_plan, current_positions, available_cash,
\* pending_orders): the orders, the cache it leaves, the caller's positions
\* mapping as the shallow copy leaves it, and whether it raised
CalculateOrders(plan, current_positions, available_cash, pending, cache, t, feed, sim) ==
    LET eff == EffectivePositions(current_positions, pending)
        flat == Flatten(plan)
        r == CalcLoop(flat, 1, eff, SumTargetNum(flat), available_cash, t, feed, sim,
                      [orders |-> <<>>, remaining_cash |-> available_cash,
                       low_water |-> available_cash, cache |-> cache, raised |-> FALSE])
    IN  [orders |-> r.orders, remaining_cash |-> r.remaining_cash,
         low_water |-> r.low_water, cache |-> r.cache, raised |-> r.raised,
         positions |-> [s \in DOMAIN current_positions |-> eff[s]]]

(***************************************************************************)
(* Account and positions                                                   *)
(***************************************************************************)
\* What load_account_info can store: account_info with or without one of the
\* recognised value keys, the total value in cents, and the positions.
AccountSnapshots ==
    { [loaded |-> TRUE, value_key |-> FALSE, total_value |-> 0, positions |-> <<>>],
      [loaded |-> TRUE, value_key |-> TRUE, total_value |-> 0, positions |-> <<>>],
      [loaded |-> TRUE, value_key |-> TRUE, total_value |-> 1040,
       positions |-> ("AAPL" :> 5)] }

\* _get_current_positions(): every position priced through _get_market_price
GetCurrentPositions(positions, cache, t, feed, sim) ==
    LET got(s) == GetMarketPrice(cache, s, t, feed[s], sim[s], FALSE)
    IN  [positions |->
            [s \in DOMAIN positions |->
                [position |-> positions[s], marketPrice |-> got(s).price,
                 marketValue |-> positions[s] * got(s).price * 100]],
         cache |-> [s \in Symbols |->
                      IF s \in DOMAIN positions THEN got(s).cache[s] ELSE cache[s]]]

(***************************************************************************)
(* The retry pass                                                          *)
(***************************************************************************)
\* _adjust_order_for_current_price(order_item): the copy with its quantity and
\* price adjusted, and the cache the price lookup leaves
AdjustOrderForCurrentPrice(o, cache, t, feed, sim) ==
    LET got == GetMarketPrice(cache, o.symbol, t, feed, sim, FALSE)
        new_quantity == TruncDiv(o.target_value.num, o.target_value.den * got.price * 100)
    IN  [order |->
            IF got.price > 0 /\ o.target_value.num > 0 /\ new_quantity # o.quantity
            THEN [o EXCEPT !.quantity = Max(1, new_quantity), !.price = got.price]
            ELSE o,
         cache |-> got.cache]

\* self._generate_order_sheet: the class defines _generate_order_sheets only, so
\* the attribute lookup of lines 185 and 928 raises AttributeError
HasGenerateOrderSheet == FALSE

\* line 167
Expired(o) == o.retry_count >= max_retry_attempts

\* lines 162-193: acc carries updated_pending_orders (with the ages of its
\* orders), released_cash, retry_results, the orders sent to the brokerage, the
\* cache and whether an exception ended the pass
RECURSIVE RetryLoop(_, _, _, _, _, _, _, _)
RetryLoop(pending, ages, k, t, feed, sim, retry_submitted, acc) ==
    IF k > Len(pending) \/ acc.raised THEN acc
    ELSE
      LET o == pending[k]
      IN  IF Expired(o)
          THEN RetryLoop(pending, ages, k + 1, t, feed, sim, retry_submitted,
                 [acc EXCEPT !.released_cash =
                    @ + (IF o.action = "BUY" THEN ReservedAmount(o) ELSE 0)])
          ELSE
            LET adj == AdjustOrderForCurrentPrice(o, acc.cache, t, feed[o.symbol],
                                                  sim[o.symbol])
                updated_order == [adj.order EXCEPT !.retry_count = o.retry_count + 1]
                status == IF retry_submitted[o.symbol] THEN "Submitted" ELSE "Error"
            IN  IF ~HasGenerateOrderSheet
                THEN [acc EXCEPT !.cache = adj.cache, !.raised = TRUE]
                ELSE RetryLoop(pending, ages, k + 1, t, feed, sim, retry_submitted,
                       [acc EXCEPT
                          !.cache = adj.cache,
                          !.sent = Append(@, updated_order),
                          !.retry_results = Append(@, [order |-> updated_order,
                                                       status |-> status]),
                          !.updated = IF status # "Submitted"
                                      THEN Append(@, updated_order) ELSE @,
                          !.updated_age = IF status # "Submitted"
                                          THEN Append(@, Min(ages[k] + 1, MaxAge)) ELSE @])

RetryPass(pending, ages, cache, t, feed, sim, retry_submitted) ==
    RetryLoop(pending, ages, 1, t, feed, sim, retry_submitted,
              [updated |-> <<>>, updated_age |-> <<>>, released_cash |-> 0,
               retry_results |-> <<>>, sent |-> <<>>, cache |-> cache, raised |-> FALSE])

(***************************************************************************)
(* handle_excess_cash_investment                                           *)
(***************************************************************************)
\* _execute_orders(order_sheets): one result per order, 'Submitted' when
\* placeOrder returned and 'Error' when it raised
ExecuteOrders(orders, submitted) ==
    [i \in 1..Len(orders) |->
        [order |-> orders[i],
         status |-> IF submitted[orders[i].symbol] THEN "Submitted" ELSE "Error"]]

\* line 244: order_data['retry_count'] = 1
InitialRetryCount == 1

\* a demotion that leaves the retry counter at 0
DemoteToPending_retry_count_zero(order) == [order EXCEPT !.retry_count = 0]

\* lines 243-245: the order data of a failed new order as the pending list takes it
DemoteToPending(order) == [order EXCEPT !.retry_count = InitialRetryCount]

\* lines 240-246: the new orders whose execution did not report 'Submitted', as
\* they are appended to updated_pending_orders
RECURSIVE FailedNewOrders(_)
FailedNewOrders(results) ==
    IF Len(results) = 0 THEN <<>>
    ELSE (IF Head(results).status # "Submitted"
          THEN <<DemoteToPending(Head(results).order)>>
          ELSE <<>>) \o FailedNewOrders(Tail(results))

\* line 227
EffectiveCash(total_available_cash, updated_pending_orders) ==
    total_available_cash - CalculateReservedCash(updated_pending_orders)

\* a reservation computed before the failed new orders are appended
NewReservedCash_before_new(updated_pending_orders, failed) ==
    CalculateReservedCash(updated_pending_orders)

\* line 252, over the list assigned at line 249
NewReservedCash(updated_pending_orders, failed) ==
    CalculateReservedCash(updated_pending_orders \o failed)

Aged(ages) == [i \in 1..Len(ages) |-> Min(ages[i] + 1, MaxAge)]

Zeros(n) == [i \in 1..n |-> 0]

\* lines 239-252: the failed new orders join the pending list and the
\* reservation is recomputed; the status result of line 257
InvestUpdatePending(retry, seen, new_total_value, allocation_plan, effective_cash, calc, new_results) ==
    LET failed == FailedNewOrders(new_results)
    IN  [pending |-> retry.updated \o failed,
         ages |-> retry.updated_age \o Zeros(Len(failed)),
         reserved |-> NewReservedCash(retry.updated, failed),
         cache |-> calc.cache,
         result |-> seen @@ [outcome |-> "status",
                             new_total_value |-> new_total_value,
                             allocation_plan |-> allocation_plan,
                             effective_cash |-> effective_cash,
                             orders |-> calc.orders,
                             new_results |-> new_results]]

\* the state and the outcome when the method ends before line 249
InvestEndsEarly(kept, seen, cache, outcome) ==
    kept @@ [cache |-> cache,
             result |-> seen @@ [outcome |-> outcome, new_total_value |-> 0,
                                 allocation_plan |-> <<>>, effective_cash |-> 0,
                                 orders |-> <<>>, new_results |-> <<>>]]

\* lines 235-237, after _calculate_orders returned calc or raised
InvestExecute(retry, kept, seen, submitted, new_total_value, allocation_plan, effective_cash, calc) ==
    IF calc.raised
    THEN InvestEndsEarly(kept, seen, calc.cache, "raised")
    ELSE InvestUpdatePending(retry, seen, new_total_value, allocation_plan, effective_cash,
                             calc, ExecuteOrders(calc.orders, submitted))

\* a calculation of new orders that does not look at the sign of effective_cash
InvestCalculate_always_calculates(retry, kept, seen, t, feed, sim, submitted, new_total_value, allocation_plan, pos, effective_cash) ==
    InvestExecute(retry, kept, seen, submitted, new_total_value, allocation_plan,
                  effective_cash,
                  CalculateOrders(allocation_plan, pos.positions, effective_cash,
                                  retry.updated, pos.cache, t, feed, sim))

\* lines 227-233: new orders are calculated only with positive effective cash
InvestCalculate(retry, kept, seen, t, feed, sim, submitted, new_total_value, allocation_plan, pos, effective_cash) ==
    InvestExecute(retry, kept, seen, submitted, new_total_value, allocation_plan,
                  effective_cash,
                  IF effective_cash > 0
                  THEN CalculateOrders(allocation_plan, pos.positions, effective_cash,
                                       retry.updated, pos.cache, t, feed, sim)
                  ELSE [orders |-> <<>>, remaining_cash |-> effective_cash,
                        low_water |-> effective_cash, cache |-> pos.cache,
                        raised |-> FALSE, positions |-> pos.positions])

\* lines 196-227, after the retry pass returned retry or raised
InvestAfterRetry(account, portfolio, pending, ages, reserved, t, excess_cash, feed, sim, submitted, retry) ==
    LET total_available_cash == excess_cash + retry.released_cash
        new_total_value == account.total_value + total_available_cash
        seen == [op |-> "invest", excess_cash |-> excess_cash, entered |-> pending,
                 portfolio |-> portfolio, value_key |-> account.value_key,
                 released_cash |-> retry.released_cash, surviving |-> retry.updated,
                 retry_results |-> retry.retry_results, sent |-> retry.sent]
        kept == [pending |-> pending, ages |-> Aged(ages), reserved |-> reserved]
    IN  IF retry.raised
        THEN InvestEndsEarly(kept, seen, retry.cache, "raised")
        ELSE IF ~account.value_key
        THEN InvestEndsEarly(kept, seen, retry.cache, "error")
        ELSE InvestCalculate(retry, kept, seen, t, feed, sim, submitted, new_total_value,
                 CalculateTargetAllocation(portfolio, new_total_value),
                 GetCurrentPositions(account.positions, retry.cache, t, feed, sim),
                 EffectiveCash(total_available_cash, retry.updated))

\* The whole of handle_excess_cash_investment(excess_cash) from the state
\* (account, portfolio, pending, ages, reserved, cache) at time t: the state it
\* leaves and what it returned.  outcome is "status" (the result of line 257),
\* "error" (line 214) or "raised" (an exception left the method).
HandleExcessCashInvestment(account, portfolio, pending, ages, reserved, cache, t, excess_cash, feed, sim, retry_submitted, submitted) ==
    InvestAfterRetry(account, portfolio, pending, ages, reserved, t, excess_cash, feed,
                     sim, submitted,
                     RetryPass(pending, ages, cache, t, feed, sim, retry_submitted))

(***************************************************************************)
(* Inputs                                                                  *)
(***************************************************************************)
CashAmounts == {0, (MaxCashUnits \div 2) * 100, MaxCashUnits * 100}

\* the feed's answers during one invocation; its three ways of failing take the
\* same branch of _get_market_price, and one stands for them here
InvestFeedOutcomes == {f \in FeedOutcomes : FeedValid(f) \/ f.kind = "error"}
Feeds == [Symbols -> InvestFeedOutcomes]
Sims == {[s \in Symbols |-> p] : p \in SimPrices}
Submissions == [Symbols -> BOOLEAN]

\* the retries' placeOrder outcomes: none is ever asked for while the order sheet
\* of a retry cannot be built
RetrySubmissions ==
    IF HasGenerateOrderSheet THEN Submissions ELSE {[s \in Symbols |-> FALSE]}

EmptyCache == [s \in Symbols |-> NoEntry]

Idle == [op |-> "none"]

(***************************************************************************)
(* The engine: construction, then calls of its operations                  *)
(***************************************************************************)
Threads == {1, 2}

NoInvocation == [active |-> FALSE]

\* no scheduled task is being run by the thread
NoTask == [at |-> "idle", task |-> "none", outcome |-> "none"]

\* nothing runs outside the engine: no invocation in progress, the scheduler as
\* constructed (scheduler.py lines 50-51), the demo's queue empty
\* (investment_demo.py line 63)
InitOthers ==
    /\ in_flight = [th \in Threads |-> NoInvocation]
    /\ is_running = FALSE
    /\ last_execution = {}
    /\ task_pc = [th \in Threads |-> NoTask]
    /\ cash_queue = <<>>
    /\ deposit_pc = "sleep"
    /\ total_deposit = 0
    /\ deposits = <<>>
    /\ ticks = <<>>
    /\ supplied = 0
    /\ spent = 0

\* __init__ (lines 21-46)
Init ==
    /\ pending_orders = <<>>
    /\ reserved_cash = 0
    /\ market_data_cache = EmptyCache
    /\ investment_account = NoAccount
    /\ investment_portfolio = NoPortfolio
    /\ now = 0
    /\ pending_age = <<>>
    /\ last = Idle
    /\ InitOthers

\* time passes between calls
Tick ==
    /\ now + TickSeconds <= MaxClock
    /\ now' = now + TickSeconds
    /\ UNCHANGED <<pending_orders, reserved_cash, market_data_cache, investment_account,
                   investment_portfolio, pending_age, last>>
    /\ UNCHANGED otherVars

\* load_account_info() as lines 148-149 call it, with the account id set by the
\* caller
LoadAccountInfo ==
    /\ ~investment_account.loaded
    /\ investment_account' \in AccountSnapshots
    /\ UNCHANGED <<pending_orders, reserved_cash, market_data_cache,
                   investment_portfolio, now, pending_age, last>>
    /\ UNCHANGED otherVars

\* load_portfolio_allocations() as lines 151-152 call it: the table of the file,
\* or no change when the file is missing or unreadable
LoadPortfolioAllocations ==
    /\ Len(investment_portfolio) = 0
    /\ investment_portfolio' \in Portfolios
    /\ UNCHANGED <<pending_orders, reserved_cash, market_data_cache,
                   investment_account, now, pending_age, last>>
    /\ UNCHANGED otherVars

\* one call of _get_market_price
GetPrice ==
    \E sym \in Symbols, feed \in FeedOutcomes, sim \in SimPrices, force \in BOOLEAN :
        LET got == GetMarketPrice(market_data_cache, sym, now, feed, sim, force)
        IN  /\ market_data_cache' = got.cache
            /\ last' = [op |-> "price", symbol |-> sym, force_refresh |-> force,
                        feed |-> feed, before |-> market_data_cache[sym], at |-> now,
                        fresh |-> CacheFresh(market_data_cache, sym, now),
                        price |-> got.price, source |-> got.source,
                        called |-> got.called, unchanged |-> got.cache = market_data_cache]
            /\ UNCHANGED <<pending_orders, reserved_cash, investment_account,
                           investment_portfolio, now, pending_age>>
            /\ UNCHANGED otherVars

\* what one call of handle_excess_cash_investment(excess_cash) does to the
\* engine; lines 148-152 load the account and the portfolio when they are not
\* there
InvestStep(excess_cash, feed, sim, retry_submitted, submitted, account, portfolio) ==
    LET r == HandleExcessCashInvestment(account, portfolio, pending_orders,
                 pending_age, reserved_cash, market_data_cache, now,
                 excess_cash, feed, sim, retry_submitted, submitted)
    IN  /\ investment_account' = account
        /\ investment_portfolio' = portfolio
        /\ pending_orders' = r.pending
        /\ pending_age' = r.ages
        /\ reserved_cash' = r.reserved
        /\ market_data_cache' = r.cache
        /\ last' = r.result
        /\ UNCHANGED now

\* one call of handle_excess_cash_investment(excess_cash)
Invest ==
    /\ \E excess_cash \in CashAmounts, feed \in Feeds, sim \in Sims,
          retry_submitted \in RetrySubmissions, submitted \in Submissions,
          account \in (IF investment_account.loaded THEN {investment_account}
                       ELSE AccountSnapshots),
          portfolio \in (IF Len(investment_portfolio) > 0 THEN {investment_portfolio}
                         ELSE Portfolios) :
          InvestStep(excess_cash, feed, sim, retry_submitted, submitted, account, portfolio)
    /\ UNCHANGED otherVars

Next ==
    \/ Tick
    \/ LoadAccountInfo
    \/ LoadPortfolioAllocations
    \/ Invest

Spec == Init /\ [][Next]_vars

(***************************************************************************)
(* Properties                                                              *)
(***************************************************************************)
Returned == last.op = "invest" /\ last.outcome = "status"

\* the sum over the BUY orders of a list of quantity * price * 1.05, in cents
RECURSIVE BuyReservation(_)
BuyReservation(orders) ==
    IF Len(orders) = 0 THEN 0
    ELSE (IF Head(orders).action = "BUY"
          THEN (Head(orders).quantity * Head(orders).price * 100 * 105) \div 100
          ELSE 0) + BuyReservation(Tail(orders))

\* C1: reserved_cash always equals the sum over exactly the BUY orders of
\* pending_orders of quantity * price * 1.05: after construction, after every
\* invocation that returns a result, and after one that does not.
C1_ReservationInvariant == reserved_cash = BuyReservation(pending_orders)

C1_Witness ==
    /\ Returned
    /\ Len(pending_orders) > 0
    /\ reserved_cash > 0

C5_NeverRaises == last.op = "invest" => last.outcome \in {"status", "error"}

RECURSIVE NotSubmitted(_)
NotSubmitted(results) ==
    IF Len(results) = 0 THEN <<>>
    ELSE (IF Head(results).status = "Submitted" THEN <<>> ELSE <<Head(results).order>>)
            \o NotSubmitted(Tail(results))

\* C6: after a completed invocation the pending list is the retried orders whose
\* execution did not report 'Submitted' followed by the new orders whose
\* execution did not report 'Submitted', each new one with retry_count 1; no
\* order whose execution reported 'Submitted' is pending.
C6_PendingMembership ==
    Returned =>
        /\ pending_orders =
              NotSubmitted(last.retry_results)
                 \o [i \in 1..Len(NotSubmitted(last.new_results)) |->
                       [NotSubmitted(last.new_results)[i] EXCEPT !.retry_count = 1]]
        /\ \A i \in 1..Len(last.new_results) :
              last.new_results[i].status = "Submitted" =>
                 \A j \in 1..Len(pending_orders) :
                    pending_orders[j].symbol # last.new_results[i].order.symbol

C6_Witness ==
    /\ Returned
    /\ Len(last.new_results) = 2
    /\ last.new_results[1].status = "Submitted"
    /\ last.new_results[2].status = "Error"
    /\ Len(pending_orders) = 1

\* C7: an order that entered the pending list is gone after at most
\* max_retry_attempts further invocations.
C7_BoundedPendingLifetime ==
    \A i \in 1..Len(pending_age) : pending_age[i] <= max_retry_attempts

\* the exact sum of the rational target values of a run of instruments, added
\* to the rational acc
RECURSIVE PlanTargetSum(_, _)
PlanTargetSum(instruments, acc) ==
    IF Len(instruments) = 0 THEN acc
    ELSE LET t == Head(instruments).target_value
         IN  PlanTargetSum(Tail(instruments),
                           [num |-> acc.num * t.den + t.num * acc.den,
                            den |-> acc.den * t.den])

RECURSIVE PlanSum(_, _)
PlanSum(plan, acc) ==
    IF Len(plan) = 0 THEN acc
    ELSE PlanSum(Tail(plan), PlanTargetSum(Head(plan).instruments, acc))

RECURSIVE PercentSum(_)
PercentSum(instruments) ==
    IF Len(instruments) = 0 THEN 0
    ELSE Head(instruments).target_percentage + PercentSum(Tail(instruments))

\* the instrument targets of a plan sum to V exactly
PlanSumsTo(plan, V) ==
    LET total == PlanSum(plan, [num |-> 0, den |-> 1])
    IN  total.num = V * total.den

\* C8 as claimed: for every non-empty portfolio the instrument targets of
\* _calculate_target_allocation(V) sum to V.
C8_AllocationSum ==
    (Returned /\ Len(last.portfolio) > 0) =>
        PlanSumsTo(last.allocation_plan, last.new_total_value)

\* C8 as amended: the instrument targets sum to V when the target percentages
\* of every strategy of the portfolio sum to 1.
C8_AllocationSumNormalised ==
    (/\ Returned
     /\ Len(last.portfolio) > 0
     /\ \A s \in 1..Len(last.portfolio) :
           PercentSum(last.portfolio[s].instruments) = 100) =>
        PlanSumsTo(last.allocation_plan, last.new_total_value)

C8_Witness ==
    /\ Returned
    /\ Len(last.portfolio) = 2
    /\ last.new_total_value > 0
    /\ PlanSumsTo(last.allocation_plan, last.new_total_value)

\* C13: handle_excess_cash_investment(0) with an empty pending list and a
\* recognised account value key returns a status result with no orders, places
\* no order, and leaves pending_orders empty and reserved_cash at 0.
C13_ZeroExcessCash ==
    (/\ last.op = "invest"
     /\ last.excess_cash = 0
     /\ last.entered = <<>>
     /\ investment_account.value_key) =>
        /\ last.outcome = "status"
        /\ last.orders = <<>>
        /\ last.new_results = <<>>
        /\ last.sent = <<>>
        /\ pending_orders = <<>>
        /\ reserved_cash = 0

C13_Witness ==
    /\ Returned
    /\ last.excess_cash = 0
    /\ last.entered = <<>>
    /\ Len(last.portfolio) = 2
    /\ investment_account.total_value > 0
    /\ last.new_results = <<>>
    /\ pending_orders = <<>>

(***************************************************************************)
(* The engine with its other entry points: rebalance_portfolio, and the    *)
(* caller refreshing the account information between invocations           *)
(***************************************************************************)
\* what rebalance_portfolio leaves and returns when it ends at the given point
RebalanceEnds(account, pending, cache, outcome) ==
    [cache |-> cache,
     result |-> [op |-> "rebalance", value_key |-> account.value_key,
                 entered |-> pending, outcome |-> outcome]]

\* rebalance_portfolio(): the {error} return of line 906 without a value key;
\* else the retry pass of lines 912-937, which raises as that of line 185
\* does; else the positions are priced (line 943) and line 950 calls
\* _calculate_orders with three arguments where line 540 requires four, which
\* raises TypeError.  Lines 951-997 are never reached.
RebalancePortfolio(account, pending, ages, cache, t, feed, sim, retry_submitted) ==
    IF ~account.value_key
    THEN RebalanceEnds(account, pending, cache, "error")
    ELSE IF RetryPass(pending, ages, cache, t, feed, sim, retry_submitted).raised
    THEN RebalanceEnds(account, pending,
             RetryPass(pending, ages, cache, t, feed, sim, retry_submitted).cache, "raised")
    ELSE RebalanceEnds(account, pending,
             GetCurrentPositions(account.positions,
                 RetryPass(pending, ages, cache, t, feed, sim, retry_submitted).cache,
                 t, feed, sim).cache,
             "raised")

\* one call of rebalance_portfolio(); line 888 loads the account when it is not
\* there
Rebalance ==
    \E feed \in Feeds, sim \in Sims, retry_submitted \in RetrySubmissions,
       account \in (IF investment_account.loaded THEN {investment_account}
                    ELSE AccountSnapshots) :
        LET r == RebalancePortfolio(account, pending_orders, pending_age,
                                    market_data_cache, now, feed, sim, retry_submitted)
        IN  /\ investment_account' = account
            /\ market_data_cache' = r.cache
            /\ last' = r.result
            /\ UNCHANGED <<pending_orders, reserved_cash, investment_portfolio, now,
                           pending_age>>
            /\ UNCHANGED otherVars

\* the caller refreshes the account information before a deposit
\* (investment_demo.py line 244) and load_account_info() stores what the
\* brokerage answers now: here, account data without any of the value keys
ReloadAccountInfo ==
    /\ investment_account.loaded
    /\ investment_account.value_key
    /\ investment_account' \in {a \in AccountSnapshots : ~a.value_key}
    /\ UNCHANGED <<pending_orders, reserved_cash, market_data_cache,
                   investment_portfolio, now, pending_age, last>>
    /\ UNCHANGED otherVars

\* no time passes here: every call is made within the cache's lifetime
NextEngine ==
    \/ LoadAccountInfo
    \/ ReloadAccountInfo
    \/ LoadPortfolioAllocations
    \/ Invest
    \/ Rebalance

SpecEngine == Init /\ [][NextEngine]_vars

\* C14: when the account info holds none of the value keys,
\* handle_excess_cash_investment returns {error} and leaves pending_orders and
\* reserved_cash as they were before the call.
C14_MissingAccountValue ==
    (last.op = "invest" /\ ~last.value_key) =>
        /\ last.outcome = "error"
        /\ pending_orders = last.entered
        /\ reserved_cash = BuyReservation(last.entered)

\* C15: with an empty portfolio allocation table, handle_excess_cash_investment
\* returns an {error} result and not a success status, for any excess_cash.
C15_EmptyPortfolioError ==
    (last.op = "invest" /\ Len(last.portfolio) = 0) => last.outcome = "error"

\* C16: rebalance_portfolio, called with a recognised value key in the account
\* info, runs to completion and returns a result carrying a status.
C16_RebalanceCompletes ==
    (last.op = "rebalance" /\ last.value_key) => last.outcome = "status"

(***************************************************************************)
(* The price cache on its own: calls of _get_market_price as time passes   *)
(***************************************************************************)
NextPrice ==
    \/ Tick
    \/ GetPrice

SpecPrice == Init /\ [][NextPrice]_vars

NeedsLive == last.op = "price" /\ (last.force_refresh \/ ~last.fresh)

\* C10: when a live price is needed and the feed fails (an exception, None or a
\* non-positive price) while the key has a cache entry, however old, the cached
\* price is returned and the entry is left as it was; a simulated price is
\* generated only when the key has no entry.
C10_StaleIfError ==
    /\ (NeedsLive /\ ~FeedValid(last.feed) /\ last.before.present) =>
          /\ last.price = last.before.price
          /\ market_data_cache[last.symbol] = last.before
    /\ (last.op = "price" /\ market_data_cache[last.symbol].simulated
          /\ market_data_cache[last.symbol] # last.before) => ~last.before.present

C10_Witness ==
    /\ NeedsLive
    /\ last.feed.kind = "error"
    /\ last.before.present
    /\ now - last.before.timestamp >= market_data_timeout
    /\ last.price = last.before.price

\* C11: whatever the cache holds and whatever the live feed answers (a price,
\* None, a non-positive price, an exception), _get_market_price returns a
\* strictly positive price, and every price held in the cache is strictly
\* positive.
C11_PriceAvailability ==
    /\ last.op = "price" => last.price > 0
    /\ \A s \in Symbols : market_data_cache[s].present => market_data_cache[s].price > 0

C11_Witness ==
    /\ last.op = "price"
    /\ last.feed.kind = "price"
    /\ last.feed.price = 0
    /\ ~last.before.present
    /\ last.source = "simulated"
    /\ last.price > 0

\* C23: with force_refresh false and a cache entry for the key younger than
\* 300 s, _get_market_price returns the cached price, does not call the market
\* data feed and leaves the cache as it was; with force_refresh true, or with
\* an entry aged 300 s or more, the feed is called.
C23_FreshCacheHit ==
    last.op = "price" =>
        /\ (/\ ~last.force_refresh
            /\ last.before.present
            /\ last.at - last.before.timestamp < 300) =>
               /\ last.price = last.before.price
               /\ ~last.called
               /\ last.unchanged
        /\ (\/ last.force_refresh
            \/ (last.before.present /\ last.at - last.before.timestamp >= 300)) =>
               last.called

\* a fresh entry answers although the feed holds another price
C23_Witness ==
    /\ last.op = "price"
    /\ ~last.force_refresh
    /\ last.before.present
    /\ last.at - last.before.timestamp < 300
    /\ last.feed.kind = "price"
    /\ last.feed.price > 0
    /\ last.feed.price # last.before.price
    /\ last.price = last.before.price
    /\ ~last.called

\* an entry aged exactly 300 s is not used: the feed is called and its price
\* replaces the entry
C23_WitnessExpired ==
    /\ last.op = "price"
    /\ ~last.force_refresh
    /\ last.before.present
    /\ last.at - last.before.timestamp = 300
    /\ last.called
    /\ last.source = "live"
    /\ last.price # last.before.price

(***************************************************************************)
(* _calculate_orders on its own: called, as lines 221-233 call it, with    *)
(* the plan of the portfolio, the priced positions of the account and a    *)
(* pending list, for any available cash                                    *)
(***************************************************************************)
\* a pending order as a caller holds it: 2 shares at 3, target value 6
InstalledOrder(sym, action, rc) ==
    [symbol |-> sym, action |-> action, quantity |-> 2, price |-> 3,
     target_value |-> [num |-> 600, den |-> 1], current_value |-> 0,
     retry_count |-> rc]

RECURSIVE ListsUpTo(_, _)
ListsUpTo(S, n) ==
    IF n = 0 THEN {<<>>}
    ELSE ListsUpTo(S, n - 1)
            \cup {Append(l, o) : l \in {m \in ListsUpTo(S, n - 1) : Len(m) = n - 1}, o \in S}

CalcPendingLists == ListsUpTo({InstalledOrder(s, "BUY", 1) : s \in Symbols}, MaxPending)

InitCalc ==
    /\ pending_orders \in CalcPendingLists
    /\ reserved_cash = CalculateReservedCash(pending_orders)
    /\ market_data_cache = EmptyCache
    /\ investment_account \in {a \in AccountSnapshots : a.value_key}
    /\ investment_portfolio \in Portfolios
    /\ now = 0
    /\ pending_age = Zeros(Len(pending_orders))
    /\ last = Idle
    /\ InitOthers

CalcCall ==
    \E available_cash \in CashAmounts, feed \in Feeds, sim \in Sims :
        LET plan == CalculateTargetAllocation(investment_portfolio,
                        investment_account.total_value + available_cash)
            pos == GetCurrentPositions(investment_account.positions, market_data_cache,
                                       now, feed, sim)
            r == CalculateOrders(plan, pos.positions, available_cash, pending_orders,
                                 pos.cache, now, feed, sim)
        IN  /\ market_data_cache' = r.cache
            /\ last' = [op |-> "calc", allocation_plan |-> plan,
                        current_positions |-> pos.positions,
                        available_cash |-> available_cash, pending |-> pending_orders,
                        orders |-> r.orders, remaining_cash |-> r.remaining_cash,
                        low_water |-> r.low_water, raised |-> r.raised,
                        positions_after |-> r.positions]
            /\ UNCHANGED <<pending_orders, reserved_cash, investment_account,
                           investment_portfolio, now, pending_age>>
            /\ UNCHANGED otherVars

NextCalc ==
    \/ Tick
    \/ CalcCall

SpecCalc == InitCalc /\ [][NextCalc]_vars

Calculated == last.op = "calc" /\ ~last.raised

RECURSIVE PlanInstruments(_)
PlanInstruments(plan) ==
    IF Len(plan) = 0 THEN <<>> ELSE Head(plan).instruments \o PlanInstruments(Tail(plan))

\* the marketValue that effective_positions holds for a symbol: that of the
\* current position if there is one, else that of the first pending order for
\* the symbol, else 0
EffectiveMarketValue(current_positions, pending, sym) ==
    IF sym \in DOMAIN current_positions THEN current_positions[sym].marketValue
    ELSE IF \E i \in 1..Len(pending) : pending[i].symbol = sym
    THEN LET i == CHOOSE i \in 1..Len(pending) :
                    /\ pending[i].symbol = sym
                    /\ \A j \in 1..(i - 1) : pending[j].symbol # sym
         IN  pending[i].quantity * pending[i].price * 100
    ELSE 0

RECURSIVE PendingValue(_, _)
PendingValue(pending, sym) ==
    IF Len(pending) = 0 THEN 0
    ELSE (IF Head(pending).symbol = sym
          THEN Head(pending).quantity * Head(pending).price * 100 ELSE 0)
            + PendingValue(Tail(pending), sym)

\* C18: the current_value that calculateOrders uses for an instrument is the
\* market value of its current position (0 without one) plus quantity * price
\* of every pending order for it.  The value used is the one each returned
\* order carries in its current_value field.
C18_PendingCounted ==
    Calculated =>
        \A i \in 1..Len(last.orders) :
            last.orders[i].current_value =
                (IF last.orders[i].symbol \in DOMAIN last.current_positions
                 THEN last.current_positions[last.orders[i].symbol].marketValue
                 ELSE 0) + PendingValue(last.pending, last.orders[i].symbol)

\* the quantity the sizing rule gives an instrument: floor(availableCash *
\* (target / total_target) / price), or floor(remainingCash / price) when that
\* costs more than the remaining cash.  The targets of a plan share their
\* denominator, so target / total_target = num / total_num.
RuleQuantity(available_cash, num, total_num, price_cents, remaining_cash) ==
    LET wanted == (available_cash * num) \div (total_num * price_cents)
    IN  IF wanted * price_cents > remaining_cash
        THEN remaining_cash \div price_cents
        ELSE wanted

\* the <<symbol, quantity>> pairs the sizing rule gives the instruments
\* instruments[k..], in order, from the remaining cash
RECURSIVE RuleOrders(_, _, _, _, _, _, _, _)
RuleOrders(instruments, k, positions, pending, cache, available_cash, total_num, remaining_cash) ==
    IF k > Len(instruments) THEN <<>>
    ELSE
      LET e == instruments[k]
          cur == EffectiveMarketValue(positions, pending, e.instrument)
          in_band == Abs(e.target_value.num - cur * e.target_value.den) * 100
                        < 5 * e.target_value.num
          price_cents == cache[e.instrument].price * 100
          q == RuleQuantity(available_cash, e.target_value.num, total_num, price_cents,
                            remaining_cash)
      IN  IF in_band \/ q < 1
          THEN RuleOrders(instruments, k + 1, positions, pending, cache, available_cash,
                          total_num, remaining_cash)
          ELSE <<<<e.instrument, q>>>>
                 \o RuleOrders(instruments, k + 1, positions, pending, cache,
                               available_cash, total_num, remaining_cash - q * price_cents)

RECURSIVE TargetNumSum(_)
TargetNumSum(instruments) ==
    IF Len(instruments) = 0 THEN 0
    ELSE Head(instruments).target_value.num + TargetNumSum(Tail(instruments))

\* C19: the orders returned by calculateOrders are, in plan order, exactly the
\* instruments outside the dead-band whose rule quantity is at least 1, each
\* with that quantity, at the price held for it.
C19_OrderSizing ==
    Calculated =>
        /\ [i \in 1..Len(last.orders) |->
               <<last.orders[i].symbol, last.orders[i].quantity>>]
              = RuleOrders(PlanInstruments(last.allocation_plan), 1,
                           last.current_positions, last.pending, market_data_cache,
                           last.available_cash,
                           TargetNumSum(PlanInstruments(last.allocation_plan)),
                           last.available_cash)
        /\ \A i \in 1..Len(last.orders) :
              last.orders[i].price = market_data_cache[last.orders[i].symbol].price

\* two equally weighted instruments without positions: each gets
\* floor((cash / 2) / price)
C19_Witness ==
    /\ Calculated
    /\ Len(last.allocation_plan) = 1
    /\ Len(last.allocation_plan[1].instruments) = 2
    /\ DOMAIN last.current_positions = {}
    /\ last.pending = <<>>
    /\ Len(last.orders) = 2
    /\ \A i \in 1..2 :
          last.orders[i].quantity
             = (last.available_cash \div 2) \div (last.orders[i].price * 100)

(***************************************************************************)
(* _calculate_orders called twice in a row by one caller: the same plan,   *)
(* the same positions object (as the first call left it), the same cash    *)
(* and pending list, the cache as the first call left it, no time passing. *)
(* The cash is any amount, negative included; the plan is that of the      *)
(* account value plus the size of the cash.                                *)
(***************************************************************************)
CalcCashAmounts == {-(MaxCashUnits * 100), 0, MaxCashUnits * 100}

\* the caller holds an account with positions
InitCalcTwice ==
    /\ pending_orders \in CalcPendingLists
    /\ reserved_cash = CalculateReservedCash(pending_orders)
    /\ market_data_cache = EmptyCache
    /\ investment_account \in {a \in AccountSnapshots : a.value_key /\ DOMAIN a.positions # {}}
    /\ investment_portfolio \in Portfolios
    /\ now = 0
    /\ pending_age = Zeros(Len(pending_orders))
    /\ last = Idle
    /\ InitOthers

\* the feed's answers during one of the two calls: one answer for every symbol
UniformFeeds == {[s \in Symbols |-> f] : f \in InvestFeedOutcomes}

CalcTwice ==
    \E available_cash \in CalcCashAmounts, feed \in UniformFeeds, feed2 \in UniformFeeds, sim \in Sims :
        LET plan == CalculateTargetAllocation(investment_portfolio,
                        investment_account.total_value + Abs(available_cash))
            pos == GetCurrentPositions(investment_account.positions, market_data_cache,
                                       now, feed, sim)
            first == CalculateOrders(plan, pos.positions, available_cash, pending_orders,
                                     pos.cache, now, feed, sim)
            second == CalculateOrders(plan, first.positions, available_cash, pending_orders,
                                      first.cache, now, feed2, sim)
        IN  /\ market_data_cache' = second.cache
            /\ last' = [op |-> "calc2", allocation_plan |-> plan,
                        current_positions |-> pos.positions,
                        positions_between |-> first.positions,
                        available_cash |-> available_cash, pending |-> pending_orders,
                        cache_before |-> pos.cache, cache_between |-> first.cache,
                        at |-> now,
                        orders |-> first.orders, raised |-> first.raised,
                        orders2 |-> second.orders, raised2 |-> second.raised]
            /\ UNCHANGED <<pending_orders, reserved_cash, investment_account,
                           investment_portfolio, now, pending_age>>
            /\ UNCHANGED otherVars

NextCalcTwice ==
    \/ Tick
    \/ CalcTwice

SpecCalcTwice == InitCalcTwice /\ [][NextCalcTwice]_vars

\* every instrument of the plan has a cache entry younger than
\* market_data_timeout (300 s) when the first call starts
FreshBefore ==
    \A i \in 1..Len(PlanInstruments(last.allocation_plan)) :
        LET entry == last.cache_before[PlanInstruments(last.allocation_plan)[i].instrument]
        IN  entry.present /\ last.at - entry.timestamp < 300

\* C12: two calls of calculateOrders in a row with the same plan, positions
\* object, cash and pending orders, over a fresh price cache that the first
\* call leaves unchanged, return identical order lists.
C12_Deterministic ==
    (last.op = "calc2" /\ FreshBefore /\ last.cache_between = last.cache_before
        /\ ~last.raised) =>
        /\ ~last.raised2
        /\ last.orders2 = last.orders

C12_Witness ==
    /\ last.op = "calc2"
    /\ FreshBefore
    /\ last.cache_between = last.cache_before
    /\ last.positions_between # last.current_positions
    /\ Len(last.orders) = 2
    /\ last.orders2 = last.orders

\* C20: every order calculateOrders returns has action BUY and an integer
\* quantity of at least 1, whatever the positions (instruments above their
\* target included) and whatever the available cash, negative included.
C20_NeverSells ==
    last.op = "calc2" =>
        /\ \A i \in 1..Len(last.orders) :
              last.orders[i].action = "BUY" /\ last.orders[i].quantity >= 1
        /\ \A i \in 1..Len(last.orders2) :
              last.orders2[i].action = "BUY" /\ last.orders2[i].quantity >= 1

\* an order for an instrument whose current value exceeds its target by more
\* than the dead-band
C20_Witness ==
    /\ last.op = "calc2"
    /\ ~last.raised
    /\ \E i \in 1..Len(last.orders) :
          LET o == last.orders[i]
          IN  /\ o.current_value * o.target_value.den > o.target_value.num
              /\ (o.current_value * o.target_value.den - o.target_value.num) * 100
                    >= 5 * o.target_value.num
              /\ o.action = "BUY"

\* a call with negative available cash that returns: it returns no order
C20_WitnessOverdrawn ==
    /\ last.op = "calc2"
    /\ ~last.raised
    /\ last.available_cash < 0
    /\ Len(last.allocation_plan) > 0
    /\ last.orders = <<>>

(***************************************************************************)
(* _calculate_orders in floating point.  Python floats are binary: every   *)
(* operation returns the representable number nearest to the exact result  *)
(* (ties to even).  Here a float carries MantissaBits significant bits     *)
(* (binary64 carries 53) and is held as a whole number of 2^-FracBits.     *)
(* The call is made with no positions and no pending orders, over an empty *)
(* price cache, for a plan of one strategy.                                *)
(***************************************************************************)
MantissaBits == 4
FracBits == 4
MaxFloatAmount == 15   \* largest target value and available cash of a call

Pow2(k) == 2^k

\* n / d >= 0 rounded to the nearest multiple of 2^e that has at most
\* MantissaBits significant bits, ties to the even mantissa
RECURSIVE FloatRoundAt(_, _, _)
FloatRoundAt(n, d, e) ==
    IF n < d * Pow2(MantissaBits + e)
    THEN LET s == d * Pow2(e)
             q == n \div s
             r == n % s
         IN  (IF 2 * r > s \/ (2 * r = s /\ q % 2 = 1) THEN q + 1 ELSE q) * Pow2(e)
    ELSE FloatRoundAt(n, d, e + 1)

FloatRound(n, d) == IF n >= 0 THEN FloatRoundAt(n, d, 0) ELSE -FloatRoundAt(-n, d, 0)

FloatUnit == Pow2(FracBits)

\* float(n) of an int, and int(x) of a float
FloatOf(n) == FloatRound(n * FloatUnit, 1)
IntOf(x) == TruncDiv(x, FloatUnit)

FAdd(x, y) == FloatRound(x + y, 1)
FSub(x, y) == FloatRound(x - y, 1)
FMul(x, y) == FloatRound(x * y, FloatUnit)
FDiv(x, y) == FloatRound(x * FloatUnit, y)

\* line 597: sum(...) adds the targets one after the other, starting from 0
RECURSIVE FloatSumTargets(_, _)
FloatSumTargets(flat, acc) ==
    IF Len(flat) = 0 THEN acc
    ELSE FloatSumTargets(Tail(flat), FAdd(acc, Head(flat).target_value))

\* lines 622-623 with float operands: self.investment_config['rebalance_threshold']
\* is the float nearest to 0.05
BelowThresholdFloat(target, current_value) ==
    Abs(FSub(target, current_value))
        < FMul(target, FloatRound(rebalance_threshold_pct * FloatUnit, 100))

\* a sizing without the branch of lines 653-660
SizeOrderFloat_never_shrinks(allocated_cash, market_price, remaining_cash) ==
    LET qty == IntOf(FDiv(allocated_cash, market_price))
    IN  [wanted |-> qty, hit |-> FALSE, quantity |-> Max(0, qty)]

\* lines 648-661 with float operands: wanted is int(allocated_cash /
\* market_price), hit says that the branch of line 653 was taken, quantity is
\* the quantity of the order, 0 when the instrument is skipped
SizeOrderFloat(allocated_cash, market_price, remaining_cash) ==
    LET qty == IntOf(FDiv(allocated_cash, market_price))
    IN  IF qty <= 0 THEN [wanted |-> qty, hit |-> FALSE, quantity |-> 0]
        ELSE IF FMul(FloatOf(qty), market_price) > remaining_cash
        THEN [wanted |-> qty, hit |-> TRUE,
              quantity |-> Max(0, IntOf(FDiv(remaining_cash, market_price)))]
        ELSE [wanted |-> qty, hit |-> FALSE, quantity |-> qty]

\* what the loop body of lines 604-683 does to acc for one instrument that is
\* outside the dead-band, priced at got
CalcStepFloat(sym, target, current_value, total_target, available_cash, got, acc) ==
    LET market_price == FloatOf(got.price)
        allocated_cash == FMul(available_cash, FDiv(target, total_target))
        size == SizeOrderFloat(allocated_cash, market_price, acc.remaining_cash)
        order_value == FMul(FloatOf(size.quantity), market_price)
        step == [symbol |-> sym, allocated_cash |-> allocated_cash,
                 market_price |-> market_price, wanted |-> size.wanted,
                 hit |-> size.hit, quantity |-> size.quantity]
    IN  IF got.price > 0 /\ size.quantity > 0
        THEN [acc EXCEPT
                !.cache = got.cache,
                !.remaining_cash = FSub(@, order_value),
                !.steps = Append(@, step),
                !.orders = Append(@, Order(sym, "BUY", size.quantity, got.price,
                                           target, current_value))]
        ELSE [acc EXCEPT !.cache = got.cache, !.steps = Append(@, step)]

\* the loop of lines 604-683 over flat[k..] with float operands
RECURSIVE CalcLoopFloat(_, _, _, _, _, _, _, _, _)
CalcLoopFloat(flat, k, eff, total_target, available_cash, t, feed, sim, acc) ==
    IF k > Len(flat) \/ acc.raised THEN acc
    ELSE IF BelowThresholdFloat(flat[k].target_value, CurrentValue(eff, flat[k].instrument))
    THEN CalcLoopFloat(flat, k + 1, eff, total_target, available_cash, t, feed, sim, acc)
    ELSE IF total_target = 0
    THEN [acc EXCEPT !.raised = TRUE]
    ELSE CalcLoopFloat(flat, k + 1, eff, total_target, available_cash, t, feed, sim,
             CalcStepFloat(flat[k].instrument, flat[k].target_value,
                           CurrentValue(eff, flat[k].instrument), total_target,
                           available_cash,
                           GetMarketPrice(acc.cache, flat[k].instrument, t,
                                          feed[flat[k].instrument],
                                          sim[flat[k].instrument], FALSE),
                           acc))

\* _calculate_orders(allocation_plan, current_positions, available_cash,
\* pending_orders) with float operands
CalculateOrdersFloat(plan, current_positions, available_cash, pending, cache, t, feed, sim) ==
    CalcLoopFloat(Flatten(plan), 1, EffectivePositions(current_positions, pending),
                  FloatSumTargets(Flatten(plan), 0), available_cash, t, feed, sim,
                  [orders |-> <<>>, steps |-> <<>>, remaining_cash |-> available_cash,
                   cache |-> cache, raised |-> FALSE])

\* whole amounts that a float holds exactly
FloatAmounts == {FloatOf(n) : n \in 0..MaxFloatAmount}

\* a plan of one strategy with both instruments
FloatPlans ==
    {<<[strategy |-> "Growth", target_value |-> FAdd(t1, t2),
        instruments |-> <<[instrument |-> "AAPL", target_value |-> t1],
                          [instrument |-> "MSFT", target_value |-> t2]>>]>> :
        t1 \in FloatAmounts, t2 \in FloatAmounts}

\* the plan with the instruments of its strategy in the opposite order
ReversedPlan(plan) ==
    <<[plan[1] EXCEPT !.instruments = <<plan[1].instruments[2], plan[1].instruments[1]>>]>>

NoPositions == <<>>

CalcFloat ==
    /\ last.op = "none"
    /\ \E plan \in FloatPlans,
          available_cash \in FloatAmounts \ {0}, feed \in Feeds, sim \in Sims :
        LET r == CalculateOrdersFloat(plan, NoPositions, available_cash, <<>>,
                                      market_data_cache, now, feed, sim)
            rev == CalculateOrdersFloat(ReversedPlan(plan), NoPositions, available_cash,
                                        <<>>, market_data_cache, now, feed, sim)
        IN  /\ market_data_cache' = r.cache
            /\ last' = [op |-> "calcf", allocation_plan |-> plan,
                        available_cash |-> available_cash,
                        orders |-> r.orders, steps |-> r.steps,
                        remaining_cash |-> r.remaining_cash, raised |-> r.raised,
                        orders_reversed |-> rev.orders, raised_reversed |-> rev.raised]
            /\ UNCHANGED <<pending_orders, reserved_cash, investment_account,
                           investment_portfolio, now, pending_age>>
            /\ UNCHANGED otherVars

NextCalcFloat ==
    \/ CalcFloat

SpecCalcFloat == Init /\ [][NextCalcFloat]_vars

\* the cash left when the k-th evaluated instrument is sized: the available
\* cash less, one after the other, the cost of the orders before it
RECURSIVE RemainingBefore(_, _, _)
RemainingBefore(steps, k, available_cash) ==
    IF k = 1 THEN available_cash
    ELSE LET before == RemainingBefore(steps, k - 1, available_cash)
         IN  IF steps[k - 1].quantity > 0
             THEN FSub(before, FMul(FloatOf(steps[k - 1].quantity), steps[k - 1].market_price))
             ELSE before

\* the target of a symbol in a plan of one strategy
PlanTarget(plan, sym) ==
    LET i == CHOOSE i \in 1..Len(plan[1].instruments) : plan[1].instruments[i].instrument = sym
    IN  plan[1].instruments[i].target_value

\* C21: in calculateOrders, with non-negative targets and positive prices, the
\* branch 'order_value > remaining_cash' can be taken: an instrument takes it
\* exactly when int(allocated_cash / price) shares cost more than the cash the
\* instruments before it have left, and it then gets int(remaining_cash /
\* price) shares, never more than int(allocated_cash / price), or no order when
\* that is 0; every other instrument gets int(allocated_cash / price) shares.
C21_Starvation ==
    (last.op = "calcf" /\ ~last.raised) =>
        \A k \in 1..Len(last.steps) :
            LET st == last.steps[k]
                plan == last.allocation_plan
                allocated_cash ==
                    FMul(last.available_cash,
                         FDiv(PlanTarget(plan, st.symbol), plan[1].target_value))
                wanted == IntOf(FDiv(allocated_cash, st.market_price))
                remaining == RemainingBefore(last.steps, k, last.available_cash)
                starved == wanted >= 1
                             /\ FMul(FloatOf(wanted), st.market_price) > remaining
            IN  /\ st.hit <=> starved
                /\ starved => /\ st.quantity = Max(0, IntOf(FDiv(remaining, st.market_price)))
                              /\ st.quantity <= wanted
                /\ ~starved => st.quantity = Max(0, wanted)
                /\ st.quantity >= 1 <=>
                      \E i \in 1..Len(last.orders) :
                          /\ last.orders[i].symbol = st.symbol
                          /\ last.orders[i].quantity = st.quantity

\* the quantity a list of orders gives a symbol, 0 without an order
QuantityFor(orders, sym) ==
    IF \E i \in 1..Len(orders) : orders[i].symbol = sym
    THEN LET i == CHOOSE i \in 1..Len(orders) : orders[i].symbol = sym
         IN  orders[i].quantity
    ELSE 0

\* the second instrument is given fewer shares than int(allocated_cash / price)
\* because the first has taken the cash, and the plan with its instruments in
\* the opposite order gives different quantities
C21_Witness ==
    /\ last.op = "calcf"
    /\ ~last.raised
    /\ \A i \in 1..2 : last.allocation_plan[1].instruments[i].target_value > 0
    /\ Len(last.steps) = 2
    /\ ~last.steps[1].hit
    /\ last.steps[1].quantity >= 1
    /\ last.steps[2].hit
    /\ last.steps[2].quantity >= 1
    /\ last.steps[2].quantity < last.steps[2].wanted
    /\ \E s \in Symbols :
          QuantityFor(last.orders, s) # QuantityFor(last.orders_reversed, s)

\* the second instrument gets no order at all for want of remaining cash
C21_WitnessSkipped ==
    /\ last.op = "calcf"
    /\ ~last.raised
    /\ Len(last.steps) = 2
    /\ last.steps[2].hit
    /\ last.steps[2].wanted >= 1
    /\ last.steps[2].quantity = 0
    /\ Len(last.orders) = 1

(***************************************************************************)
(* _adjust_order_for_current_price on its own: the retry pass calls it     *)
(* (line 178) for every pending order that has not expired, over whatever  *)
(* the price cache holds at that time                                      *)
(***************************************************************************)
\* pending orders as _calculate_orders builds them and lines 243-245 store
\* them: a quantity, the price they were sized at, and the target value of
\* their instrument (in price units here)
AdjustableOrders ==
    {[symbol |-> s, action |-> "BUY", quantity |-> q, price |-> p,
      target_value |-> [num |-> T * 100, den |-> 1], current_value |-> 0,
      retry_count |-> InitialRetryCount] :
        s \in Symbols, q \in 1..2, p \in LivePrices \cup SimPrices, T \in {3, 5, 6}}

AdjustCall ==
    \E o \in AdjustableOrders, feed \in InvestFeedOutcomes, sim \in SimPrices :
        LET r == AdjustOrderForCurrentPrice(o, market_data_cache, now, feed, sim)
        IN  /\ market_data_cache' = r.cache
            /\ last' = [op |-> "adjust", before |-> o, after |-> r.order,
                        current_price |-> r.cache[o.symbol].price]
            /\ UNCHANGED <<pending_orders, reserved_cash, investment_account,
                           investment_portfolio, now, pending_age>>
            /\ UNCHANGED otherVars

NextAdjust ==
    \/ Tick
    \/ AdjustCall

SpecAdjust == Init /\ [][NextAdjust]_vars

\* C22: after _adjust_order_for_current_price on a pending order with target
\* value T > 0 at the current market price p > 0, the order's quantity is
\* max(1, floor(T / p)) and its stored price is p.
C22_RetryRepricing ==
    (/\ last.op = "adjust"
     /\ last.before.target_value.num > 0
     /\ last.current_price > 0) =>
        /\ last.after.quantity =
              Max(1, last.before.target_value.num
                        \div (last.before.target_value.den * last.current_price * 100))
        /\ last.after.price = last.current_price

\* C29: after the retry adjustment of a pending BUY order, quantity * price of
\* the adjusted order is at most the cash reserved for the order before the
\* retry, its previous quantity * price * order_buffer, whatever the new price.
C29_WithinReservation ==
    (last.op = "adjust" /\ last.before.action = "BUY") =>
        OrderCost(last.after) <= ReservedAmount(last.before)

(***************************************************************************)
(* Overlapping invocations of handle_excess_cash_investment.  The method   *)
(* takes no lock: a thread reads self.pending_orders when the loop of line *)
(* 165 starts, works on its local updated_pending_orders, and assigns the  *)
(* field at line 249 and self.reserved_cash at line 252.  Threads may take *)
(* their steps in any order.  The engine has its account and portfolio     *)
(* loaded, as the demo's constructor leaves it.                            *)
(***************************************************************************)
InitOverlap ==
    /\ pending_orders = <<>>
    /\ reserved_cash = 0
    /\ market_data_cache = EmptyCache
    /\ investment_account \in {a \in AccountSnapshots : a.value_key}
    /\ investment_portfolio \in {q \in Portfolios : Len(q) > 0}
    /\ now = 0
    /\ pending_age = <<>>
    /\ last = Idle
    /\ InitOthers

OverlapCash == {MaxCashUnits * 100}

\* the market data feed is down while the invocations overlap: every price is
\* the simulated one
OverlapFeeds == {f \in UniformFeeds : \A s \in Symbols : f[s].kind = "error"}

\* an assignment that appends to the list the field holds at that moment
PendingToAssign_keeps_current(current, updated_pending_orders) ==
    current \o updated_pending_orders

\* line 249: self.pending_orders = updated_pending_orders
PendingToAssign(current, updated_pending_orders) == updated_pending_orders

\* lines 148-246 run by thread th on the account the caller left, with the
\* given inputs: the retry pass over the list the field holds now, the new
\* orders and their execution.  An invocation that raises or returns {error}
\* ends here; another stays in progress before line 249.
StartInvocation(th, account, excess_cash, feed, sim, retry_submitted, submitted) ==
    LET r == HandleExcessCashInvestment(account, investment_portfolio,
                 pending_orders, pending_age, reserved_cash, market_data_cache,
                 now, excess_cash, feed, sim, retry_submitted, submitted)
    IN  /\ investment_account' = account
        /\ market_data_cache' = r.cache
        /\ IF r.result.outcome = "status"
           THEN /\ in_flight' = [in_flight EXCEPT ![th] =
                      [active |-> TRUE, pc |-> "line249", read |-> pending_orders,
                       updated_pending_orders |-> r.pending, ages |-> r.ages,
                       feed |-> feed, sim |-> sim, submitted |-> submitted,
                       retry_submitted |-> retry_submitted, result |-> r.result]]
                /\ UNCHANGED <<last, pending_age>>
           ELSE /\ last' = r.result
                /\ pending_age' = r.ages
                /\ UNCHANGED in_flight
        /\ UNCHANGED <<pending_orders, reserved_cash, investment_portfolio, now>>

\* a thread calls handle_excess_cash_investment
InvokeBegin(th) ==
    /\ ~in_flight[th].active
    /\ \E excess_cash \in OverlapCash, feed \in OverlapFeeds, sim \in Sims,
          retry_submitted \in RetrySubmissions, submitted \in Submissions :
        StartInvocation(th, investment_account, excess_cash, feed, sim, retry_submitted,
                        submitted)
    /\ UNCHANGED <<schedulerVars, demoVars, historyVars>>

\* line 249 run by thread th
WritePending(th) ==
    /\ in_flight[th].active
    /\ in_flight[th].pc = "line249"
    /\ pending_orders' = PendingToAssign(pending_orders, in_flight[th].updated_pending_orders)
    /\ pending_age' = in_flight[th].ages
    /\ in_flight' = [in_flight EXCEPT ![th] =
          [pc |-> "line252", overwritten |-> pending_orders,
           written |-> PendingToAssign(pending_orders, in_flight[th].updated_pending_orders)]
             @@ in_flight[th]]
    /\ UNCHANGED <<reserved_cash, market_data_cache, investment_account,
                   investment_portfolio, now, last>>
    /\ UNCHANGED <<schedulerVars, demoVars, historyVars>>

\* line 252 and the return of line 257 run by thread th
WriteReserved(th) ==
    /\ in_flight[th].active
    /\ in_flight[th].pc = "line252"
    /\ reserved_cash' = CalculateReservedCash(pending_orders)
    /\ last' = [thread |-> th, read |-> in_flight[th].read,
                overwritten |-> in_flight[th].overwritten,
                written |-> in_flight[th].written,
                feed |-> in_flight[th].feed, sim |-> in_flight[th].sim,
                submitted |-> in_flight[th].submitted,
                retry_submitted |-> in_flight[th].retry_submitted]
                  @@ in_flight[th].result
    /\ in_flight' = [in_flight EXCEPT ![th] = NoInvocation]
    /\ UNCHANGED <<pending_orders, market_data_cache, investment_account,
                   investment_portfolio, now, pending_age>>
    /\ UNCHANGED <<schedulerVars, demoVars, historyVars>>

NextOverlap ==
    \/ \E th \in Threads : InvokeBegin(th)
    \/ \E th \in Threads : WritePending(th)
    \/ \E th \in Threads : WriteReserved(th)

SpecOverlap == InitOverlap /\ [][NextOverlap]_vars

Completed == last.op = "invest" /\ last.outcome = "status" /\ "thread" \in DOMAIN last

\* C24: handle_excess_cash_investment takes no lock.  The list an invocation
\* assigns to pending_orders at line 249 is made of the list it read when it
\* started (the retried orders not 'Submitted') and its own failed new orders
\* only; whatever another invocation assigned in between is overwritten, so an
\* overlapping invocation can lose a pending order and its reservation.
C24_LostUpdate ==
    Completed =>
        last.written =
            NotSubmitted(last.retry_results)
               \o [i \in 1..Len(NotSubmitted(last.new_results)) |->
                     [NotSubmitted(last.new_results)[i] EXCEPT !.retry_count = 1]]

\* an invocation has overwritten the list another one assigned while it ran: an
\* order of that list is pending no more and reserves nothing, while the same
\* invocation started after the other had finished keeps it
C24_Witness ==
    /\ Completed
    /\ \A th \in Threads : ~in_flight[th].active
    /\ last.read = <<>>
    /\ Len(last.overwritten) = 1
    /\ pending_orders = last.written
    /\ \A j \in 1..Len(pending_orders) : pending_orders[j] # last.overwritten[1]
    /\ reserved_cash = BuyReservation(pending_orders)
    /\ LET seq == HandleExcessCashInvestment(investment_account, investment_portfolio,
                      last.overwritten, Zeros(1), BuyReservation(last.overwritten),
                      market_data_cache, now, last.excess_cash, last.feed, last.sim,
                      last.retry_submitted, last.submitted)
       IN  \E j \in 1..Len(seq.pending) : seq.pending[j] = last.overwritten[1]

\* C28: calculateOrders does not modify its inputs: after the call the
\* current_positions mapping the caller passed (position, marketPrice and
\* marketValue of every entry) and the pending orders list are as before.
C28_InputsUnchanged ==
    last.op = "calc" =>
        /\ last.positions_after = last.current_positions
        /\ pending_orders = last.pending

\* the caller's mapping holds, after the call, a position raised by the
\* quantity of a pending order for the same symbol; the pending list is as it was
C28_PositionsModified ==
    /\ last.op = "calc"
    /\ pending_orders = last.pending
    /\ \E i \in 1..Len(last.pending) :
          /\ last.pending[i].symbol \in DOMAIN last.current_positions
          /\ last.positions_after[last.pending[i].symbol].position
               >= last.current_positions[last.pending[i].symbol].position
                    + last.pending[i].quantity
          /\ last.positions_after[last.pending[i].symbol].marketValue
               = last.current_positions[last.pending[i].symbol].marketValue

(***************************************************************************)
(* Invocations in a row, with the history of the cash handed to them       *)
(* (supplied) and of the cost of the orders whose execution reported       *)
(* 'Submitted' (spent), both in cents.                                     *)
(***************************************************************************)
MaxSupplied == 20      \* the excess cash supplied over a behaviour, in price units

\* the cost of the orders of a list of execution results that were 'Submitted'
RECURSIVE SubmittedCost(_)
SubmittedCost(results) ==
    IF Len(results) = 0 THEN 0
    ELSE (IF Head(results).status = "Submitted" THEN OrderCost(Head(results).order) ELSE 0)
            + SubmittedCost(Tail(results))

\* one call of handle_excess_cash_investment(excess_cash), recorded
InvestCycle ==
    /\ \E excess_cash \in CashAmounts, feed \in Feeds, sim \in Sims,
          retry_submitted \in RetrySubmissions, submitted \in Submissions,
          account \in (IF investment_account.loaded THEN {investment_account}
                       ELSE AccountSnapshots),
          portfolio \in (IF Len(investment_portfolio) > 0 THEN {investment_portfolio}
                         ELSE Portfolios) :
          /\ supplied + excess_cash <= MaxSupplied * 100
          /\ InvestStep(excess_cash, feed, sim, retry_submitted, submitted, account, portfolio)
          /\ supplied' = supplied + excess_cash
    /\ spent' = spent + SubmittedCost(last'.retry_results) + SubmittedCost(last'.new_results)
    /\ UNCHANGED <<in_flight, schedulerVars, demoVars>>

NextCycles ==
    \/ LoadAccountInfo
    \/ LoadPortfolioAllocations
    \/ InvestCycle

SpecCycles == Init /\ [][NextCycles]_vars

\* C30: over any sequence of handle_excess_cash_investment invocations, the
\* total cost (quantity * price) of the orders whose execution reported
\* 'Submitted' never exceeds the total excess_cash supplied to the invocations,
\* and the cash an invocation releases from expired BUY orders never exceeds
\* what was reserved for the orders it found pending.
C30_CashConservation ==
    /\ spent <= supplied
    /\ last.op = "invest" => last.released_cash <= CalculateReservedCash(last.entered)

\* after earlier invocations that were handed cash, an invocation was handed
\* more, had one new order 'Submitted' and another left pending: the cost of
\* everything submitted so far is below the cash supplied so far
C30_Witness ==
    /\ last.op = "invest"
    /\ last.outcome = "status"
    /\ supplied > last.excess_cash
    /\ spent > supplied - last.excess_cash
    /\ spent < supplied
    /\ Len(pending_orders) = 1
    /\ SubmittedCost(last.new_results) > 0

(***************************************************************************)
(* The demo (investment_demo.py): the CLI thread puts deposits on          *)
(* cash_queue, the scheduler thread drains the queue at every tick and     *)
(* invests the total.  queue.Queue is thread safe: put and get_nowait are  *)
(* single steps.  Amounts are in cents.                                    *)
(***************************************************************************)
MaxDeposits == 3       \* deposits the CLI thread enters
MaxTicks == 2          \* ticks of the scheduler thread

SchedulerThread == 1
CliThread == 2

\* 'deposit <amount>' takes any float: negative, zero, positive
DepositAmounts == {-((MaxCashUnits \div 4) * 100), 0, (MaxCashUnits \div 2) * 100}

\* the engine as InvestmentDemo.__init__ leaves it (lines 116-139)
InitDemo ==
    /\ pending_orders = <<>>
    /\ reserved_cash = 0
    /\ market_data_cache = EmptyCache
    /\ investment_account \in AccountSnapshots
    /\ investment_portfolio \in {q \in Portfolios : Len(q) > 0}
    /\ now = 0
    /\ pending_age = <<>>
    /\ last = Idle
    /\ InitOthers

\* _cli_loop, lines 180-185: self.cash_queue.put(amount)
Enqueue ==
    /\ Len(deposits) < MaxDeposits
    /\ \E amount \in DepositAmounts :
          /\ deposits' = Append(deposits, [amount |-> amount, times |-> 0, tick |-> 0])
          /\ cash_queue' = Append(cash_queue, [id |-> Len(deposits) + 1, amount |-> amount])
    /\ UNCHANGED <<engineVars, in_flight, schedulerVars, historyVars, deposit_pc,
                   total_deposit, ticks>>

\* a tick of _scheduler_loop enters _process_cash_deposits: lines 224-228
TickStart ==
    /\ deposit_pc = "sleep"
    /\ Len(ticks) < MaxTicks
    /\ ticks' = Append(ticks, [total |-> 0, calls |-> 0, amount |-> 0, net_liquidation |-> 0])
    /\ IF Len(cash_queue) = 0
       THEN UNCHANGED <<deposit_pc, total_deposit>>
       ELSE deposit_pc' = "drain" /\ total_deposit' = 0
    /\ UNCHANGED <<engineVars, in_flight, schedulerVars, historyVars, cash_queue, deposits>>

\* lines 229-232: one turn of the loop, get_nowait and total_deposit += amount
DrainOne ==
    /\ deposit_pc = "drain"
    /\ Len(cash_queue) > 0
    /\ cash_queue' = Tail(cash_queue)
    /\ total_deposit' = total_deposit + Head(cash_queue).amount
    /\ deposits' = [deposits EXCEPT ![Head(cash_queue).id].times = @ + 1,
                                    ![Head(cash_queue).id].tick = Len(ticks)]
    /\ ticks' = [ticks EXCEPT ![Len(ticks)].total = @ + Head(cash_queue).amount]
    /\ UNCHANGED <<engineVars, in_flight, schedulerVars, historyVars, deposit_pc>>

\* line 229: the queue is found empty and the loop ends
DrainEnd ==
    /\ deposit_pc = "drain"
    /\ Len(cash_queue) = 0
    /\ deposit_pc' = "process"
    /\ UNCHANGED <<engineVars, in_flight, schedulerVars, historyVars, cash_queue,
                   total_deposit, deposits, ticks>>

\* an investment of any total that is not negative
ShouldInvest_non_negative(total) == total >= 0

\* line 236
ShouldInvest(total) == total > 0

\* line 236 not taken: the tick ends
ProcessSkip ==
    /\ deposit_pc = "process"
    /\ ~ShouldInvest(total_deposit)
    /\ deposit_pc' = "sleep"
    /\ UNCHANGED <<engineVars, in_flight, schedulerVars, historyVars, cash_queue,
                   total_deposit, deposits, ticks>>

\* receive_cash_transfer(amount) on the account info: NetLiquidation_SGD, the
\* value key of the model's accounts, is raised by the amount (lines 1030-1034)
ReceiveCashTransfer(account, amount) ==
    IF account.value_key THEN [account EXCEPT !.total_value = @ + amount] ELSE account

\* lines 236-269: the account is refreshed (load_account_info stores what the
\* brokerage answers, or the dummy account), the deposit is added to it and
\* handle_excess_cash_investment(total_deposit) is called
ProcessBegin ==
    /\ deposit_pc = "process"
    /\ ShouldInvest(total_deposit)
    /\ \E refreshed \in AccountSnapshots, feed \in OverlapFeeds, sim \in Sims,
          retry_submitted \in RetrySubmissions, submitted \in Submissions :
          /\ StartInvocation(SchedulerThread, ReceiveCashTransfer(refreshed, total_deposit),
                             total_deposit, feed, sim, retry_submitted, submitted)
          /\ ticks' = [ticks EXCEPT ![Len(ticks)] =
                          [@ EXCEPT !.calls = @ + 1, !.amount = total_deposit,
                                    !.net_liquidation = refreshed.total_value]]
    /\ deposit_pc' = "invest"
    /\ UNCHANGED <<schedulerVars, historyVars, cash_queue, total_deposit, deposits>>

\* the call of line 269 has returned or raised (line 283 catches): the tick ends
ProcessEnd ==
    /\ deposit_pc = "invest"
    /\ ~in_flight[SchedulerThread].active
    /\ deposit_pc' = "sleep"
    /\ UNCHANGED <<engineVars, in_flight, schedulerVars, historyVars, cash_queue,
                   total_deposit, deposits, ticks>>

NextDemo ==
    \/ Enqueue
    \/ TickStart
    \/ DrainOne
    \/ DrainEnd
    \/ ProcessSkip
    \/ ProcessBegin
    \/ WritePending(SchedulerThread)
    \/ WriteReserved(SchedulerThread)
    \/ ProcessEnd

SpecDemo == InitDemo /\ [][NextDemo]_vars

RECURSIVE DrainedInto(_, _)
\* the sum of the first n deposits' amounts dequeued during tick t
DrainedInto(t, n) ==
    IF n = 0 THEN 0
    ELSE DrainedInto(t, n - 1)
           + (IF deposits[n].times > 0 /\ deposits[n].tick = t THEN deposits[n].amount ELSE 0)

TimesQueued(id) == Cardinality({k \in 1..Len(cash_queue) : cash_queue[k].id = id})

\* C27: with the CLI thread enqueuing while the scheduler thread drains, every
\* deposit is either still on the queue once or has been dequeued exactly once,
\* into one tick; a tick's total is the sum of the deposits dequeued during it;
\* handle_excess_cash_investment is called at most once per tick, with the
\* tick's total and only when that total is > 0; only the scheduler thread ever
\* has an invocation in progress, and only while its tick waits for it.
C27_DepositQueue ==
    /\ \A i \in 1..Len(deposits) :
          /\ deposits[i].times + TimesQueued(i) = 1
          /\ deposits[i].times = 1 => deposits[i].tick \in 1..Len(ticks)
    /\ \A t \in 1..Len(ticks) :
          /\ ticks[t].total = DrainedInto(t, Len(deposits))
          /\ ticks[t].calls <= 1
          /\ ticks[t].calls = 1 => ticks[t].amount = ticks[t].total /\ ticks[t].total > 0
    /\ ~in_flight[CliThread].active
    /\ in_flight[SchedulerThread].active => deposit_pc = "invest"

\* a tick has drained a negative and a positive deposit and invested their
\* positive total once, while a deposit entered during the tick waits on the queue
C27_Witness ==
    /\ deposit_pc = "invest"
    /\ ticks[Len(ticks)].calls = 1
    /\ \E i, j \in 1..Len(deposits) :
          /\ deposits[i].tick = Len(ticks) /\ deposits[i].times = 1 /\ deposits[i].amount < 0
          /\ deposits[j].tick = Len(ticks) /\ deposits[j].times = 1 /\ deposits[j].amount > 0
    /\ Len(cash_queue) = 1

\* the call made by _process_cash_deposits at line 269 of the demo has returned
\* the status of line 257
DemoInvested ==
    /\ deposit_pc = "invest"
    /\ ~in_flight[SchedulerThread].active
    /\ last.op = "invest"
    /\ last.outcome = "status"

\* C25: in the demo's deposit flow with an empty pending list, the total value
\* handed to the allocation computation is the account's net liquidation before
\* the deposit plus the deposit d: d is counted once.
C25_DepositCountedOnce ==
    (DemoInvested /\ last.entered = <<>>) =>
        last.new_total_value =
            ticks[Len(ticks)].net_liquidation + ticks[Len(ticks)].amount

\* the deposit flow has run with an empty pending list and the total value it
\* allocated holds the deposit twice
C25_CountedTwice ==
    /\ DemoInvested
    /\ last.entered = <<>>
    /\ last.new_total_value =
          ticks[Len(ticks)].net_liquidation + 2 * ticks[Len(ticks)].amount

(***************************************************************************)
(* The scheduler (scheduler.py): run_cash_management and                   *)
(* run_portfolio_rebalance share the busy flag is_running.  The test of    *)
(* line 166 and the assignment of line 170 are separate steps, so callers  *)
(* on two threads interleave between them.  last_execution is the set of   *)
(* keys written so far.                                                    *)
(***************************************************************************)
Tasks == {"cash_management", "portfolio_rebalance"}

\* the ways out of the try block of lines 173-206 and 221-237: the task ran to
\* the end, _connect_ibkr returned False, or an exception was raised (as by
\* _initialize_components, whose IBKRApp(host=..., ...) is a TypeError)
TaskOutcomes == {"success", "failed_connection", "exception"}

\* the keys of last_execution a task may have written when it leaves the try
\* block: lines 179 and 194, line 226
TaskWrites(task, outcome) ==
    IF outcome = "failed_connection" THEN {{}}
    ELSE IF task = "portfolio_rebalance"
    THEN IF outcome = "success" THEN {{"portfolio_rebalance"}} ELSE {{}}
    ELSE IF outcome = "success"
    THEN {{"cash_management"}, {"cash_management", "investment_allocation"}}
    ELSE {{}, {"cash_management"}}

\* a flag left as it is when the task did not run to the end
IsRunningAfterTask_reset_on_success(flag, outcome) == IF outcome = "success" THEN FALSE ELSE flag

\* lines 207-209 and 238-240: finally, whatever the outcome
IsRunningAfterTask(flag, outcome) == FALSE

\* lines 166-168, 214-216: the flag is found set and the task returns
TaskSkip(th) ==
    /\ task_pc[th].at = "idle"
    /\ is_running
    /\ \E task \in Tasks :
          last' = [op |-> "skip", thread |-> th, task |-> task]
    /\ UNCHANGED <<pending_orders, reserved_cash, market_data_cache, investment_account,
                   investment_portfolio, now, pending_age>>
    /\ UNCHANGED <<in_flight, schedulerVars, demoVars, historyVars>>

\* lines 166, 214: the flag is found clear
TaskCheck(th) ==
    /\ task_pc[th].at = "idle"
    /\ ~is_running
    /\ \E task \in Tasks :
          task_pc' = [task_pc EXCEPT ![th] = [at |-> "checked", task |-> task,
                                              outcome |-> "none"]]
    /\ UNCHANGED <<engineVars, in_flight, is_running, last_execution, demoVars, historyVars>>

\* lines 170, 218: self.is_running = True
TaskSet(th) ==
    /\ task_pc[th].at = "checked"
    /\ is_running' = TRUE
    /\ task_pc' = [task_pc EXCEPT ![th].at = "running"]
    /\ UNCHANGED <<engineVars, in_flight, last_execution, demoVars, historyVars>>

\* the try block, with its except clause
TaskBody(th) ==
    /\ task_pc[th].at = "running"
    /\ \E outcome \in TaskOutcomes :
          /\ \E written \in TaskWrites(task_pc[th].task, outcome) :
                last_execution' = last_execution \cup written
          /\ task_pc' = [task_pc EXCEPT ![th].at = "finally", ![th].outcome = outcome]
    /\ UNCHANGED <<engineVars, in_flight, is_running, demoVars, historyVars>>

\* the finally clause and the return
TaskFinally(th) ==
    /\ task_pc[th].at = "finally"
    /\ is_running' = IsRunningAfterTask(is_running, task_pc[th].outcome)
    /\ task_pc' = [task_pc EXCEPT ![th] = NoTask]
    /\ last' = [op |-> "task", thread |-> th, task |-> task_pc[th].task,
                outcome |-> task_pc[th].outcome]
    /\ UNCHANGED <<pending_orders, reserved_cash, market_data_cache, investment_account,
                   investment_portfolio, now, pending_age>>
    /\ UNCHANGED <<in_flight, last_execution, demoVars, historyVars>>

NextScheduler ==
    \/ \E th \in Threads : TaskSkip(th)
    \/ \E th \in Threads : TaskCheck(th)
    \/ \E th \in Threads : TaskSet(th)
    \/ \E th \in Threads : TaskBody(th)
    \/ \E th \in Threads : TaskFinally(th)

SpecScheduler == Init /\ [][NextScheduler]_vars

NoTaskInProgress == \A th \in Threads : task_pc[th].at = "idle"

\* C26: after run_cash_management or run_portfolio_rebalance has returned, by
\* success, failed connection or exception, is_running is False once no task
\* is in progress, and the step that returns leaves it False when no other
\* task has passed the test of the flag; a task invoked while is_running is
\* True returns without changing last_execution or is_running.
C26_BusyFlag ==
    /\ [](NoTaskInProgress => ~is_running)
    /\ [][\A th \in Threads :
             (TaskFinally(th) /\ \A o \in Threads \ {th} : task_pc[o].at = "idle")
                => ~is_running']_vars
    /\ [][(\E th \in Threads : TaskSkip(th))
             => UNCHANGED <<is_running, last_execution, task_pc>>]_vars

\* a cash management task that had recorded its execution and then ended by
\* an exception has returned: the flag is clear and no task is in progress
C26_Witness ==
    /\ last.op = "task"
    /\ last.outcome = "exception"
    /\ NoTaskInProgress
    /\ ~is_running
    /\ last_execution = {"cash_management"}

\* a task was turned away while the flag was set by the other thread's task
C26_WitnessSkipped ==
    /\ last.op = "skip"
    /\ is_running
    /\ \E th \in Threads : task_pc[th].at = "running" /\ th # last.thread

(***************************************************************************)
(* One invocation over a pending list held by the engine.  pending_orders  *)
(* is a plain field of the engine; the lists here are the well-formed ones *)
(* (BUY or SELL, retry_count from 1 to max_retry_attempts) whatever the    *)
(* invocations that would have built them.                                 *)
(***************************************************************************)
InstalledLists ==
    ListsUpTo({InstalledOrder(s, a, rc) :
                  s \in Symbols, a \in {"BUY", "SELL"}, rc \in 1..max_retry_attempts},
              MaxPending)

InitInstalled ==
    /\ pending_orders \in InstalledLists
    /\ reserved_cash = CalculateReservedCash(pending_orders)
    /\ market_data_cache = EmptyCache
    /\ investment_account \in AccountSnapshots
    /\ investment_portfolio \in Portfolios
    /\ now = 0
    /\ pending_age = Zeros(Len(pending_orders))
    /\ last = Idle
    /\ InitOthers

InvestInstalled ==
    /\ last.op = "none"
    /\ Invest

NextInstalled ==
    \/ Tick
    \/ InvestInstalled

SpecInstalled == InitInstalled /\ [][NextInstalled]_vars

RECURSIVE ExpiredBuyReservation(_)
ExpiredBuyReservation(orders) ==
    IF Len(orders) = 0 THEN 0
    ELSE (IF Head(orders).retry_count >= 3 /\ Head(orders).action = "BUY"
          THEN (Head(orders).quantity * Head(orders).price * 100 * 105) \div 100
          ELSE 0) + ExpiredBuyReservation(Tail(orders))

====
